---- MODULE Spec2Model ----
(***************************************************************************)
(* A model of the sumhash package (src/hash.go): the random matrix         *)
(* generator, the two compressors (Matrix and LookupTable) and the         *)
(* Merkle-Damgard streaming digest built on them.                          *)
(*                                                                         *)
(* A uint64 is a tuple of four 16-bit limbs, least significant first, so   *)
(* that sums wrap modulo 2^64 exactly as in Go.  A byte is a number in     *)
(* 0..255.  Go slices are sequences; index k of the code is index k+1.     *)
(***************************************************************************)
EXTENDS Integers, Sequences, FiniteSets, TLC

(***************************************************************************)
(* uint64 arithmetic                                                       *)
(***************************************************************************)
LimbBase == 2^16

Zero64 == <<0, 0, 0, 0>>

\* x + y on uint64: the carry out of the top limb is dropped (mod 2^64).
Add64(x, y) ==
    LET s1 == x[1] + y[1]
        s2 == x[2] + y[2] + (s1 \div LimbBase)
        s3 == x[3] + y[3] + (s2 \div LimbBase)
        s4 == x[4] + y[4] + (s3 \div LimbBase)
    IN  <<s1 % LimbBase, s2 % LimbBase, s3 % LimbBase, s4 % LimbBase>>

\* uint64(n) for a non-negative int n below 2^31.
U64(n) == <<n % LimbBase, n \div LimbBase, 0, 0>>

\* x << 3 on uint64: the three top bits are shifted out.
Shl3(x) ==
    LET s1 == x[1] * 8
        s2 == x[2] * 8 + (s1 \div LimbBase)
        s3 == x[3] * 8 + (s2 \div LimbBase)
        s4 == x[4] * 8 + (s3 \div LimbBase)
    IN  <<s1 % LimbBase, s2 % LimbBase, s3 % LimbBase, s4 % LimbBase>>

\* binary.LittleEndian.PutUint64: the eight bytes of x, lowest byte first.
PutUint64(x) ==
    <<x[1] % 256, x[1] \div 256, x[2] % 256, x[2] \div 256,
      x[3] % 256, x[3] \div 256, x[4] % 256, x[4] \div 256>>

\* binary.LittleEndian.Uint64: the uint64 whose lowest byte is w[1].
Uint64(w) ==
    <<w[1] + 256 * w[2], w[3] + 256 * w[4], w[5] + 256 * w[6], w[7] + 256 * w[8]>>

\* (b << i) & 0x80 > 0 on a byte b: the shift is truncated to 8 bits.
\* A faulty bit test: bit i counted from the least significant bit.
BitSet_lsb(b, i) == (b \div 2^i) % 2 = 1

BitSet(b, i) == ((b * 2^i) % 256) \div 128 = 1

\* The function f on 1..n as a sequence of n elements.
AsSeq(f) == SubSeq(f, 1, Len(f))

\* n zero bytes / n zero words, as make() returns them.
ZeroBytes(n) == AsSeq([k \in 1..n |-> 0])
ZeroWords(n) == AsSeq([k \in 1..n |-> Zero64])

\* p[lo:hi] of the code (0-based, hi exclusive).
Slice(p, lo, hi) == SubSeq(p, lo + 1, hi)

Min(a, b) == IF a < b THEN a ELSE b

(***************************************************************************)
(* Matrix.LookupTable and sumBits                                          *)
(***************************************************************************)
RECURSIVE sumBitsFrom(_, _, _, _)
sumBitsFrom(as, b, i, x) ==
    IF i = 8 THEN x
    ELSE sumBitsFrom(as, b, i + 1,
                     IF BitSet(b, i) THEN Add64(x, as[i + 1]) ELSE x)

\* A faulty sumBits: the bits of b taken from the least significant one.
sumBits_lsb(as, b) ==
    sumBitsFrom(as, ((b % 2) * 128) + (((b \div 2) % 2) * 64)
                    + (((b \div 4) % 2) * 32) + (((b \div 8) % 2) * 16)
                    + (((b \div 16) % 2) * 8) + (((b \div 32) % 2) * 4)
                    + (((b \div 64) % 2) * 2) + ((b \div 128) % 2),
                0, Zero64)

sumBits(as, b) == sumBitsFrom(as, b, 0, Zero64)

\* At[i][j/8][b] = sumBits(A[i][j:j+8], byte(b)), indexed [N][M/8][256]: the
\* entry of byte value b is element b+1 of its 256-element array.  (For a
\* matrix of M columns, M a multiple of 8, as every matrix here is.)
LookupTable(A) ==
    LET M == Len(A[1])
    IN  AsSeq([i \in 1..Len(A) |->
            AsSeq([g \in 1..(M \div 8) |->
                AsSeq([b \in 1..256 |->
                    sumBits(Slice(A[i], 8 * (g - 1), 8 * g), b - 1)])])])

(***************************************************************************)
(* The Compressor interface.  A Compress call returns the destination      *)
(* after the call and the runtime failure, if any.  A Compressor value c   *)
(* is [kind, ref]: the dynamic type ("Matrix" or "LookupTable") and the    *)
(* address of the slice's backing data in the heap, which every holder of  *)
(* the value shares.                                                       *)
(***************************************************************************)
NoFail == "none"
IndexFail == "index out of range"

Matrix_InputLen(A) == Len(A[1]) \div 8
Matrix_OutputLen(A) == Len(A)

\* The loops of Matrix.Compress over one row.  The loop state is [j, x, fail]:
\* the byte index, the sum so far and the failure of an index out of range.
\* Inner loop, bits b..7 of byte msg[j]:
RECURSIVE MatrixBits(_, _, _, _)
MatrixBits(row, msg, b, st) ==
    IF b = 8 \/ st.fail # NoFail THEN st
    ELSE MatrixBits(row, msg, b + 1,
            IF ~BitSet(msg[st.j + 1], b) THEN st
            ELSE IF 8 * st.j + b >= Len(row) THEN [st EXCEPT !.fail = IndexFail]
            ELSE [st EXCEPT !.x = Add64(st.x, row[8 * st.j + b + 1])])

\* for j := range msg
RECURSIVE MatrixRow(_, _, _)
MatrixRow(row, msg, st) ==
    IF st.j = Len(msg) \/ st.fail # NoFail THEN st
    ELSE MatrixRow(row, msg, [MatrixBits(row, msg, 0, st) EXCEPT !.j = st.j + 1])

\* for i := range A: rows i..N-1; a row that fails leaves dst[i] unwritten.
RECURSIVE MatrixRows(_, _, _, _)
MatrixRows(A, msg, i, out) ==
    IF i = Len(A) \/ out.fail # NoFail THEN out
    ELSE LET r == MatrixRow(A[i + 1], msg, [j |-> 0, x |-> Zero64, fail |-> NoFail])
         IN  MatrixRows(A, msg, i + 1,
                IF r.fail # NoFail THEN [out EXCEPT !.fail = r.fail]
                ELSE [out EXCEPT !.dst[i + 1] = r.x])

\* A faulty Matrix.Compress: without the two bounds checks of lines 69-70.
Matrix_Compress_unchecked(A, dst, msg) ==
    MatrixRows(A, msg, 0, [dst |-> dst, fail |-> NoFail])

Matrix_Compress(A, dst, msg) ==
    IF Len(msg) < Len(A[1]) \div 8 \/ Len(A[1]) \div 8 < 1
        THEN [dst |-> dst, fail |-> IndexFail]
    ELSE IF Len(dst) < Len(A) THEN [dst |-> dst, fail |-> IndexFail]
    ELSE MatrixRows(A, msg, 0, [dst |-> dst, fail |-> NoFail])

LookupTable_InputLen(At) == Len(At[1])
LookupTable_OutputLen(At) == Len(At)

\* for j := range A[i]: x += A[i][j][msg[j]], with the loop state [j, x].
RECURSIVE TableRow(_, _, _)
TableRow(row, msg, st) ==
    IF st.j = Len(row) THEN st.x
    ELSE TableRow(row, msg,
            [j |-> st.j + 1, x |-> Add64(st.x, row[st.j + 1][msg[st.j + 1] + 1])])

LookupTable_Compress(At, dst, msg) ==
    IF Len(msg) < Len(At[1]) \/ Len(At[1]) < 1
        THEN [dst |-> dst, fail |-> IndexFail]
    ELSE IF Len(dst) < Len(At) THEN [dst |-> dst, fail |-> IndexFail]
    ELSE [dst  |-> AsSeq([i \in 1..Len(dst) |->
                       IF i <= Len(At) THEN TableRow(At[i], msg, [j |-> 0, x |-> Zero64])
                       ELSE dst[i]]),
          fail |-> NoFail]

InputLen(hp, c) ==
    IF c.kind = "Matrix" THEN Matrix_InputLen(hp[c.ref])
    ELSE LookupTable_InputLen(hp[c.ref])

OutputLen(hp, c) ==
    IF c.kind = "Matrix" THEN Matrix_OutputLen(hp[c.ref])
    ELSE LookupTable_OutputLen(hp[c.ref])

Compress(hp, c, dst, msg) ==
    IF c.kind = "Matrix" THEN Matrix_Compress(hp[c.ref], dst, msg)
    ELSE LookupTable_Compress(hp[c.ref], dst, msg)

(***************************************************************************)
(* The streaming digest.  Go's pointers and slices are kept as addresses   *)
(* into a heap (a sequence of objects): a digest struct holds the          *)
(* addresses of its h and x arrays, so that sharing and copying are what   *)
(* the code makes them.  A machine state m is [heap, calls, fail]: calls   *)
(* logs the msg argument of every d.c.Compress call made so far, fail is   *)
(* the runtime failure that ended the call (after which nothing runs).     *)
(***************************************************************************)
DivFail == "integer divide by zero"
SliceFail == "slice bounds out of range"
MakeFail == "makeslice: len out of range"
NxFail == "d.nx != 0"

\* new(T) / make(): the object gets the next free address.
Alloc(m, obj) == [m EXCEPT !.heap = Append(m.heap, obj)]
NextAddr(m) == Len(m.heap) + 1

\* copy(dst[at:], src): the number of elements copied, and dst afterwards.
CopyLen(dst, at, src) == Min(Len(dst) - at, Len(src))
CopyInto(dst, at, src) ==
    LET n == CopyLen(dst, at, src)
    IN  SubSeq(dst, 1, at) \o SubSeq(src, 1, n) \o SubSeq(dst, at + n + 1, Len(dst))

RECURSIVE Flatten(_)
Flatten(ss) == IF ss = <<>> THEN <<>> ELSE Head(ss) \o Flatten(Tail(ss))

\* The chaining value serialized: PutUint64(msg[8*j:8*j+8], d.h[j]) for every j.
PutWords(h) == Flatten(AsSeq([j \in 1..Len(h) |-> PutUint64(h[j])]))

\* A faulty Reset: d.len is left as it was.
Reset_keepLen(m, a) ==
    IF m.fail # NoFail THEN m
    ELSE LET dg == m.heap[a]
         IN  [m EXCEPT !.heap[dg.h] = ZeroWords(Len(m.heap[dg.h])),
                       !.heap[a].nx = 0]

Reset(m, a) ==
    IF m.fail # NoFail THEN m
    ELSE LET dg == m.heap[a]
         IN  [m EXCEPT !.heap[dg.h] = ZeroWords(Len(m.heap[dg.h])),
                       !.heap[a].nx = 0,
                       !.heap[a].len = 0]

\* A faulty New: a second digest made in the same heap is given the h array
\* of the first.
New_shareH(m, c) ==
    LET size == OutputLen(m.heap, c) * 8
        blockSize == InputLen(m.heap, c) - size
        a == NextAddr(m)
        dg == [c |-> c, size |-> size, blockSize |-> blockSize,
               h |-> IF a > 2 THEN 4 ELSE a + 2, x |-> a + 1, nx |-> 0, len |-> 0]
    IN  IF blockSize < 0
            THEN [m |-> [Alloc(m, dg) EXCEPT !.fail = MakeFail], addr |-> a]
        ELSE [m |-> Reset(Alloc(Alloc(Alloc(m, dg), ZeroBytes(blockSize)),
                                ZeroWords(OutputLen(m.heap, c))), a),
              addr |-> a]

\* func (d *digest) Size() int
Size(m, a) == m.heap[a].size

\* New returns the machine state and the address of the new digest.
New(m, c) ==
    LET size == OutputLen(m.heap, c) * 8
        blockSize == InputLen(m.heap, c) - size
        a == NextAddr(m)
        dg == [c |-> c, size |-> size, blockSize |-> blockSize,
               h |-> a + 2, x |-> a + 1, nx |-> 0, len |-> 0]
    IN  IF blockSize < 0
            THEN [m |-> [Alloc(m, dg) EXCEPT !.fail = MakeFail], addr |-> a]
        ELSE [m |-> Reset(Alloc(Alloc(Alloc(m, dg), ZeroBytes(blockSize)),
                                ZeroWords(OutputLen(m.heap, c))), a),
              addr |-> a]

\* A faulty loop of blocks: the first d.size bytes of msg are left zero
\* instead of receiving the chaining value.
RECURSIVE blocksFrom_noChain(_, _, _, _)
blocksFrom_noChain(m, a, data, i) ==
    LET dg == m.heap[a]
    IN  IF m.fail # NoFail \/ i > Len(data) - dg.blockSize THEN m
        ELSE blocksFrom_noChain(
                LET msg == ZeroBytes(dg.size) \o Slice(data, i, i + dg.blockSize)
                    r == Compress(m.heap, dg.c, m.heap[dg.h], msg)
                IN  [m EXCEPT !.heap[dg.h] = r.dst,
                              !.calls = Append(m.calls, msg),
                              !.fail = r.fail],
                a, data, i + dg.blockSize)

\* The loop of blocks from offset i on: one Compress call per whole block.
RECURSIVE blocksFrom(_, _, _, _)
blocksFrom(m, a, data, i) ==
    LET dg == m.heap[a]
    IN  IF m.fail # NoFail \/ i > Len(data) - dg.blockSize THEN m
        ELSE blocksFrom(
                LET msg == PutWords(m.heap[dg.h]) \o Slice(data, i, i + dg.blockSize)
                    r == Compress(m.heap, dg.c, m.heap[dg.h], msg)
                IN  [m EXCEPT !.heap[dg.h] = r.dst,
                              !.calls = Append(m.calls, msg),
                              !.fail = r.fail],
                a, data, i + dg.blockSize)

blocks(m, a, data) == blocksFrom(m, a, data, 0)

\* Write is a chain of steps over s = [m, p]: the machine state and what is
\* left of p.  Line 139: d.len += uint64(nn).
WriteLen(m, a, p) ==
    [m |-> [m EXCEPT !.heap[a].len = m.heap[a].len + Len(p)], p |-> p]

\* Lines 143-146, after the copy into the carry buffer: compress it when full.
WriteFull(m, a) ==
    LET dg == m.heap[a]
    IN  IF dg.nx # dg.blockSize THEN m
        ELSE LET mb == blocks(m, a, m.heap[dg.x])
             IN  IF mb.fail # NoFail THEN mb ELSE [mb EXCEPT !.heap[a].nx = 0]

\* A faulty WriteCarry: p = p[n:] is left out.
WriteCarry_keepP(s, a) ==
    LET dg == s.m.heap[a]
        n == CopyLen(s.m.heap[dg.x], dg.nx, s.p)
    IN  IF s.m.fail # NoFail \/ dg.nx = 0 THEN s
        ELSE [m |-> WriteFull([s.m EXCEPT
                                  !.heap[dg.x] = CopyInto(s.m.heap[dg.x], dg.nx, s.p),
                                  !.heap[a].nx = dg.nx + n], a),
              p |-> s.p]

\* Lines 140-148: top up a partial carry buffer.
WriteCarry(s, a) ==
    LET dg == s.m.heap[a]
        n == CopyLen(s.m.heap[dg.x], dg.nx, s.p)
    IN  IF s.m.fail # NoFail \/ dg.nx = 0 THEN s
        ELSE [m |-> WriteFull([s.m EXCEPT
                                  !.heap[dg.x] = CopyInto(s.m.heap[dg.x], dg.nx, s.p),
                                  !.heap[a].nx = dg.nx + n], a),
              p |-> Slice(s.p, n, Len(s.p))]

\* A faulty WriteBlocks: len(p) > d.blockSize for len(p) >= d.blockSize.
WriteBlocks_gt(s, a) ==
    LET dg == s.m.heap[a]
        n == (Len(s.p) \div dg.blockSize) * dg.blockSize
    IN  IF s.m.fail # NoFail \/ Len(s.p) <= dg.blockSize THEN s
        ELSE IF dg.blockSize = 0 THEN [s EXCEPT !.m.fail = DivFail]
        ELSE [m |-> blocks(s.m, a, Slice(s.p, 0, n)), p |-> Slice(s.p, n, Len(s.p))]

\* Lines 149-153: compress the whole blocks of p directly.
WriteBlocks(s, a) ==
    LET dg == s.m.heap[a]
        n == (Len(s.p) \div dg.blockSize) * dg.blockSize
    IN  IF s.m.fail # NoFail \/ Len(s.p) < dg.blockSize THEN s
        ELSE IF dg.blockSize = 0 THEN [s EXCEPT !.m.fail = DivFail]
        ELSE [m |-> blocks(s.m, a, Slice(s.p, 0, n)), p |-> Slice(s.p, n, Len(s.p))]

\* A faulty WriteTail: nx is set, the bytes are not copied.
WriteTail_noCopy(s, a) ==
    LET dg == s.m.heap[a]
    IN  IF s.m.fail # NoFail \/ Len(s.p) = 0 THEN s.m
        ELSE [s.m EXCEPT !.heap[a].nx = CopyLen(s.m.heap[dg.x], 0, s.p)]

\* Lines 154-156: keep the tail in the carry buffer.
WriteTail(s, a) ==
    LET dg == s.m.heap[a]
    IN  IF s.m.fail # NoFail \/ Len(s.p) = 0 THEN s.m
        ELSE [s.m EXCEPT !.heap[dg.x] = CopyInto(s.m.heap[dg.x], 0, s.p),
                         !.heap[a].nx = CopyLen(s.m.heap[dg.x], 0, s.p)]

Write(m, a, p) ==
    IF m.fail # NoFail THEN m
    ELSE WriteTail(WriteBlocks(WriteCarry(WriteLen(m, a, p), a), a), a)

\* A faulty copy: the new struct shares the carry buffer x of the original.
copy_shareX(m, a) ==
    LET dg == m.heap[a]
        na == NextAddr(m)
        dd == [c |-> dg.c, size |-> dg.size, blockSize |-> dg.blockSize,
               h |-> na + 1, x |-> dg.x, nx |-> dg.nx, len |-> dg.len]
    IN  [m |-> Alloc(Alloc(m, dd),
                     CopyInto(ZeroWords(Len(m.heap[dg.h])), 0, m.heap[dg.h])),
         addr |-> na]

\* A faulty copy: the new struct shares the chaining value h of the original.
copy_shareH(m, a) ==
    LET dg == m.heap[a]
        na == NextAddr(m)
        dd == [c |-> dg.c, size |-> dg.size, blockSize |-> dg.blockSize,
               h |-> dg.h, x |-> na + 1, nx |-> dg.nx, len |-> dg.len]
    IN  [m |-> Alloc(Alloc(m, dd),
                     CopyInto(ZeroBytes(Len(m.heap[dg.x])), 0, m.heap[dg.x])),
         addr |-> na]

\* digest.copy: a new struct with new h and x arrays holding the same values.
\* Returns the machine state and the address of the copy.
copy(m, a) ==
    LET dg == m.heap[a]
        na == NextAddr(m)
        dd == [c |-> dg.c, size |-> dg.size, blockSize |-> dg.blockSize,
               h |-> na + 1, x |-> na + 2, nx |-> dg.nx, len |-> dg.len]
    IN  [m |-> Alloc(Alloc(Alloc(m, dd),
                           CopyInto(ZeroWords(Len(m.heap[dg.h])), 0, m.heap[dg.h])),
                     CopyInto(ZeroBytes(Len(m.heap[dg.x])), 0, m.heap[dg.x])),
         addr |-> na]

\* tmp := make([]byte, B); tmp[0] = 0x80
PadTmp(B) == AsSeq([k \in 1..B |-> IF k = 1 THEN 128 ELSE 0])

\* A faulty padding step: P = B - 8 is computed as a signed integer.
checkSumPad_signed(m, a) ==
    LET dg == m.heap[a]
        B == dg.blockSize
        P == B - 8
        r == dg.len % B
        n == IF r < P THEN P - r ELSE B + P - r
    IN  IF m.fail # NoFail THEN m
        ELSE IF B = 0 THEN [m EXCEPT !.fail = IndexFail]
        ELSE IF n < 0 \/ n > B THEN [m EXCEPT !.fail = SliceFail]
        ELSE Write(m, a, Slice(PadTmp(B), 0, n))

\* checkSum, lines 183-192: the 0x80 byte and the zero bytes.  P = B - 8 is a
\* uint64: for B < 8 it wraps to 2^64 - 8 + B, which is above every d.len % B,
\* so the first branch is taken and its slice bound P - d.len % B exceeds
\* cap(tmp) = B.
checkSumPad(m, a) ==
    LET dg == m.heap[a]
        B == dg.blockSize
        P == B - 8
        r == dg.len % B
    IN  IF m.fail # NoFail THEN m
        ELSE IF B = 0 THEN [m EXCEPT !.fail = IndexFail]
        ELSE IF B < 8 THEN [m EXCEPT !.fail = SliceFail]
        ELSE Write(m, a, Slice(PadTmp(B), 0, IF r < P THEN P - r ELSE B + P - r))

\* Lines 194-197: len := d.len << 3, written as 8 little-endian bytes.
LenField(m, a) == PutUint64(Shl3(U64(m.heap[a].len)))

\* Returns the machine state and, for the properties, pad: the machine state
\* that the padding write left.
checkSumLen(m, a) ==
    [m |-> IF m.fail # NoFail THEN m ELSE Write(m, a, LenField(m, a)),
     pad |-> m]

\* A faulty end of checkSum: the words of the chaining value are serialized
\* last row first.
checkSumOut_lastFirst(s, a) ==
    LET dg == s.m.heap[a]
        h == s.m.heap[dg.h]
    IN  IF s.m.fail # NoFail THEN [m |-> s.m, pad |-> s.pad, digest |-> <<>>]
        ELSE IF dg.nx # 0
            THEN [m |-> [s.m EXCEPT !.fail = NxFail], pad |-> s.pad, digest |-> <<>>]
        ELSE [m |-> s.m, pad |-> s.pad,
              digest |-> CopyInto(ZeroBytes(dg.size), 0,
                             PutWords(AsSeq([j \in 1..Len(h) |-> h[Len(h) + 1 - j]])))]

\* Lines 199-207: the assertion and the serialized chaining value.
checkSumOut(s, a) ==
    LET dg == s.m.heap[a]
    IN  IF s.m.fail # NoFail THEN [m |-> s.m, pad |-> s.pad, digest |-> <<>>]
        ELSE IF dg.nx # 0
            THEN [m |-> [s.m EXCEPT !.fail = NxFail], pad |-> s.pad, digest |-> <<>>]
        ELSE [m |-> s.m, pad |-> s.pad,
              digest |-> CopyInto(ZeroBytes(dg.size), 0, PutWords(s.m.heap[dg.h]))]

\* checkSum returns the machine state and the digest (and pad, as above).
checkSum(m, a) == checkSumOut(checkSumLen(checkSumPad(m, a), a), a)

\* return append(in, hash[:]...)
SumReturn(r, d0, in) ==
    [m |-> r.m, d0 |-> d0, pad |-> r.pad,
     out |-> IF r.m.fail # NoFail THEN <<>> ELSE in \o r.digest]

\* Sum returns the machine state and the slice returned (and, for the
\* properties, the address d0 of the copy and pad).
SumOn(cp, in) == SumReturn(checkSum(cp.m, cp.addr), cp.addr, in)

Sum(m, a, in) == SumOn(copy(m, a), in)

(***************************************************************************)
(* RandomMatrix.  The entropy source is an io.Reader over a byte stream:   *)
(* a Read(w) delivers n <= 8 bytes into w[0:n] and an error or nil.  The   *)
(* generator's locals are the record g: N, M, the matrix A filled so far,  *)
(* the cell (i, j) to fill next, the buffer w, the stream position pos and *)
(* the status ("running", "returned" or "panicked").                       *)
(***************************************************************************)
\* Byte k of entropy stream s.
StreamByte(s, k) ==
    (s * 89 + k * 167 + (k % 251) * (k % 241) + (k \div 5) * 61 + 201) % 256

\* RandomMatrix, lines 17-19: the state when the loops are entered.
RandomMatrixStart(s, N, compressionFactor) ==
    LET M == compressionFactor * N * 64
    IN  [N |-> N, M |-> M, A |-> AsSeq([i \in 1..N |-> ZeroWords(M)]),
         i |-> 0, j |-> 0, w |-> ZeroBytes(8), seed |-> s, pos |-> 0,
         status |-> IF N = 0 \/ M = 0 THEN "returned" ELSE "running"]

\* One pass of the inner loop, lines 23-27, for a Read that delivers n bytes
\* and the error err (TRUE) or nil (FALSE): only err is looked at.
RandomMatrixCell(g, n, err) ==
    LET w1 == AsSeq([k \in 1..8 |->
                  IF k <= n THEN StreamByte(g.seed, g.pos + k - 1) ELSE g.w[k]])
        last == g.j + 1 = g.M
        done == last /\ g.i + 1 = g.N
    IN  IF err THEN [g EXCEPT !.w = w1, !.pos = g.pos + n, !.status = "panicked"]
        ELSE [g EXCEPT !.w = w1, !.pos = g.pos + n,
                       !.A[g.i + 1][g.j + 1] = Uint64(w1),
                       !.j = IF last THEN 0 ELSE g.j + 1,
                       !.i = IF last THEN g.i + 1 ELSE g.i,
                       !.status = IF done THEN "returned" ELSE "running"]

\* The next n passes of the inner loop on a source that delivers all 8 bytes
\* every time (the passes are run in order; the halving only bounds the depth
\* of the evaluation).
RECURSIVE RandomMatrixCells(_, _)
RandomMatrixCells(g, n) ==
    IF n = 0 \/ g.status # "running" THEN g
    ELSE IF n = 1 THEN RandomMatrixCell(g, 8, FALSE)
    ELSE RandomMatrixCells(RandomMatrixCells(g, n \div 2), n - n \div 2)

\* RandomMatrix on such a source: the matrix it returns.
RandomMatrix(s, N, compressionFactor) ==
    LET g == RandomMatrixStart(s, N, compressionFactor)
    IN  RandomMatrixCells(g, g.N * g.M).A

\* A Matrix value built by hand, N rows by M columns, cells from stream s.
MatrixOf(s, N, M) ==
    AsSeq([i \in 1..N |-> AsSeq([j \in 1..M |->
        Uint64([k \in 1..8 |-> StreamByte(s, 8 * ((i - 1) * M + j - 1) + k - 1)])])])

(***************************************************************************)
(* The program state.                                                      *)
(*   heap, fail   the heap and the runtime failure that ended the program  *)
(*   comp, d      the caller's Compressor value and its digest (address)   *)
(*   last, ret    the last call made on d ([op, arg]) and the slice it     *)
(*                returned, when it was a Sum                              *)
(* History kept for the properties:                                        *)
(*   written      the bytes passed to Write since New or the last Reset    *)
(*   calls        the msg of every Compress call made by those Writes      *)
(*   fin          of the last call, when it was a Sum: the Compress calls  *)
(*                it made, how many of them the padding write made, the    *)
(*                copy's nx and len right after the padding write, and     *)
(*                the copy's chaining value h when the call ended          *)
(*   summed       Sum has been called since New or the last Reset          *)
(*   grew         a Write of one byte or more followed a Sum, since New or *)
(*                the last Reset                                           *)
(*   straddle     since New or the last Reset, some Write found a partial  *)
(*                carry buffer and brought more bytes than it had room for *)
(*   nreset       the Reset calls since New                                *)
(*   total        the number of bytes passed to Write since New            *)
(* The program that calls Compress on a Matrix and on its LookupTable      *)
(* (heap holds the two, at addresses 1 and 2):                             *)
(*   cin          the arguments of the calls, [dst, msg]                   *)
(*   cout         what the last call on each of the two did, for these     *)
(*                arguments: [matrix, table], each [dst, fail] or NoOut    *)
(* The program that uses two digests made by New on one compressor (the    *)
(* compressor's data is at address 1 of heap, the digests follow):         *)
(*   pair         [d, written, on, sw]: the addresses of the two digests,  *)
(*                the bytes passed to Write on each since New or its last  *)
(*                Reset, the digest (1 or 2) the last call was made on,    *)
(*                and how many times (up to MaxSwitch) a call was made on  *)
(*                another digest than the call before it                   *)
(* The program that calls RandomMatrix:                                    *)
(*   g            the locals of the call and the reader's position         *)
(*   rd           the result [n, err] of the last Read, and the number of  *)
(*                short reads so far                                       *)
(***************************************************************************)
VARIABLES heap, fail, comp, d, last, ret, written, calls, fin, summed, grew,
          straddle, nreset, total, cin, cout, g, rd, pair

digestVars ==
    <<heap, fail, comp, d, last, ret, written, calls, fin, summed, grew, straddle,
      nreset, total>>
compressVars == <<cin, cout>>
randomVars == <<g, rd>>
sharedVars == <<pair>>

\* Bounds of the digest model.
MaxLen == 16
MaxChunk == 16
MaxResets == 1

\* The arguments passed to Sum.
SumArgs == {<<>>, <<7, 9>>}

\* Byte k of the caller's data: a fixed pattern of period 7, which holds the
\* padding's own byte values 0x80 and 0x00.
DataPattern == <<128, 0, 1, 255, 128, 37, 0>>
DataByte(k) == DataPattern[(k % Len(DataPattern)) + 1]

\* The chunk of n bytes that continues the data after the bytes written so far.
Chunk(n) == AsSeq([k \in 1..n |-> DataByte(Len(written) + k - 1)])

NoFin == [calls |-> <<>>, padCalls |-> 0, padNx |-> 0, padLen |-> 0, h |-> <<>>]
NoRet == <<>>
NoOut == <<>>
NoRead == [n |-> 0, err |-> FALSE, short |-> 0]

\* The values of the variables of a program that is not the one running.
NoDigest ==
    /\ fail = NoFail
    /\ comp = [kind |-> "Matrix", ref |-> 1]
    /\ d = 0
    /\ last = [op |-> "none", arg |-> <<>>]
    /\ ret = NoRet
    /\ written = <<>>
    /\ calls = <<>>
    /\ fin = NoFin
    /\ summed = FALSE
    /\ grew = FALSE
    /\ straddle = FALSE
    /\ nreset = 0
    /\ total = 0
NoCompress ==
    /\ cin = [dst |-> <<>>, msg |-> <<>>]
    /\ cout = [matrix |-> NoOut, table |-> NoOut]
NoRandom ==
    /\ g = RandomMatrixStart(0, 0, 0)
    /\ rd = NoRead
NoShared ==
    pair = [d |-> <<>>, written |-> <<>>, on |-> 0, sw |-> 0]

\* The compressors a digest is built on, by kind and matrix.  Their block
\* sizes are 8 (N = 1, compressionFactor 2), 11 (N = 2, two words of
\* chaining value) and, too small for the padding, 0 (N = 4,
\* compressionFactor 1) and 4; the last (N = 1, 8 columns) takes 1 byte of
\* input, less than the 8 bytes of its chaining value.
CompressorChoices ==
    { [kind |-> "LookupTable", A |-> RandomMatrix(1, 1, 2)],
      [kind |-> "Matrix",      A |-> MatrixOf(2, 2, 216)],
      [kind |-> "Matrix",      A |-> RandomMatrix(4, 4, 1)],
      [kind |-> "LookupTable", A |-> MatrixOf(5, 1, 96)],
      [kind |-> "Matrix",      A |-> MatrixOf(6, 1, 8)] }

\* The heap holding only the compressor's data, at address 1.
CompressorHeap(ch) ==
    <<IF ch.kind = "Matrix" THEN ch.A ELSE LookupTable(ch.A)>>

Machine == [heap |-> heap, calls |-> <<>>, fail |-> NoFail]

BlockSize == heap[d].blockSize

\* Init: a compressor has been made and New(comp) has returned d.
InitDigest ==
    \E ch \in CompressorChoices :
    \E c \in {[kind |-> ch.kind, ref |-> 1]} :
    \E n \in {New([heap |-> CompressorHeap(ch), calls |-> <<>>, fail |-> NoFail], c)} :
            /\ heap = n.m.heap
            /\ fail = n.m.fail
            /\ comp = c
            /\ d = n.addr
            /\ last = [op |-> "New", arg |-> <<>>]
            /\ ret = NoRet
            /\ written = <<>>
            /\ calls = <<>>
            /\ fin = NoFin
            /\ summed = FALSE
            /\ grew = FALSE
            /\ straddle = FALSE
            /\ nreset = 0
            /\ total = 0
            /\ NoCompress
            /\ NoRandom
            /\ NoShared

\* d.Write(p)
DoWrite(p) ==
    /\ fail = NoFail
    /\ total + Len(p) <= MaxLen
    /\ \E m \in {Write(Machine, d, p)} :
           /\ heap' = m.heap
           /\ fail' = m.fail
           /\ calls' = calls \o m.calls
    /\ last' = [op |-> "Write", arg |-> <<>>]
    /\ ret' = NoRet
    /\ written' = written \o p
    /\ fin' = NoFin
    /\ total' = total + Len(p)
    /\ grew' = (grew \/ (summed /\ Len(p) > 0))
    /\ straddle' = (straddle \/ (heap[d].nx > 0 /\ Len(p) > BlockSize - heap[d].nx))
    /\ UNCHANGED <<comp, d, summed, nreset, compressVars, randomVars, sharedVars>>

\* d.Sum(in): what the call allocated is garbage once it has returned.
DoSum(in) ==
    /\ fail = NoFail
    /\ \E r \in {Sum(Machine, d, in)} :
           /\ heap' = SubSeq(r.m.heap, 1, Len(heap))
           /\ fail' = r.m.fail
           /\ ret' = r.out
           /\ fin' = [calls |-> r.m.calls, padCalls |-> Len(r.pad.calls),
                      padNx |-> r.pad.heap[r.d0].nx,
                      padLen |-> r.pad.heap[r.d0].len,
                      h |-> r.m.heap[r.m.heap[r.d0].h]]
    /\ last' = [op |-> "Sum", arg |-> in]
    /\ summed' = TRUE
    /\ UNCHANGED <<comp, d, written, calls, grew, straddle, nreset, total,
                   compressVars, randomVars, sharedVars>>

\* d.Reset()
DoReset ==
    /\ fail = NoFail
    /\ nreset < MaxResets
    /\ \E m \in {Reset(Machine, d)} :
           /\ heap' = m.heap
           /\ fail' = m.fail
    /\ last' = [op |-> "Reset", arg |-> <<>>]
    /\ ret' = NoRet
    /\ written' = <<>>
    /\ calls' = <<>>
    /\ fin' = NoFin
    /\ summed' = FALSE
    /\ grew' = FALSE
    /\ straddle' = FALSE
    /\ nreset' = nreset + 1
    /\ UNCHANGED <<comp, d, total, compressVars, randomVars, sharedVars>>

NextDigest ==
    \/ \E n \in 0..MaxChunk : DoWrite(Chunk(n))
    \/ \E in \in SumArgs : DoSum(in)
    \/ DoReset

(***************************************************************************)
(* The program that compresses with a Matrix and with its LookupTable.     *)
(***************************************************************************)
\* Bounds: the length of msg and of dst.
MaxMsg == 3
MaxDst == 2

\* The matrices, as <<seed, N, M>>: InputLen 1, 2 and 3, one or two rows.
CompressShapes == {<<11, 1, 8>>, <<12, 2, 16>>, <<13, 1, 24>>}

\* The byte values a msg is made of.
MsgBytes == {0, 1, 128, 255, 90, 165}

\* The destination before a call: n words that are not zero.
DstOf(n) == AsSeq([i \in 1..n |-> U64(i + 6)])

MatrixValue == [kind |-> "Matrix", ref |-> 1]
TableValue == [kind |-> "LookupTable", ref |-> 2]

\* Init: A is a matrix and At := A.LookupTable().
InitCompress ==
    /\ \E sh \in CompressShapes :
       \E A \in {MatrixOf(sh[1], sh[2], sh[3])} :
           heap = <<A, LookupTable(A)>>
    /\ \E n \in 1..MaxDst : cin = [dst |-> DstOf(n), msg |-> <<>>]
    /\ cout = [matrix |-> NoOut, table |-> NoOut]
    /\ NoDigest
    /\ NoRandom
    /\ NoShared

\* The caller appends a byte to msg.
MsgAppend(b) ==
    /\ Len(cin.msg) < MaxMsg
    /\ cin' = [cin EXCEPT !.msg = Append(cin.msg, b)]
    /\ cout' = [matrix |-> NoOut, table |-> NoOut]
    /\ UNCHANGED <<digestVars, randomVars, sharedVars>>

\* A.Compress(dst, msg)
DoCompressMatrix ==
    /\ cout.matrix = NoOut
    /\ cout' = [cout EXCEPT !.matrix = Compress(heap, MatrixValue, cin.dst, cin.msg)]
    /\ UNCHANGED <<digestVars, cin, randomVars, sharedVars>>

\* At.Compress(dst, msg)
DoCompressTable ==
    /\ cout.table = NoOut
    /\ cout' = [cout EXCEPT !.table = Compress(heap, TableValue, cin.dst, cin.msg)]
    /\ UNCHANGED <<digestVars, cin, randomVars, sharedVars>>

NextCompress ==
    \/ \E b \in MsgBytes : MsgAppend(b)
    \/ DoCompressMatrix
    \/ DoCompressTable

(***************************************************************************)
(* The program that calls RandomMatrix(rand, N, compressionFactor): one    *)
(* step per Read of the inner loop.  The reader delivers the bytes of its  *)
(* stream in order; a Read returns all 8 bytes, or fewer with a nil error  *)
(* (as io.Reader allows, and as a source does that runs out within an      *)
(* entry), or an error.                                                    *)
(***************************************************************************)
\* Bounds: the short reads in one call, and the seeds of the streams.
MaxShort == 1
MaxSeed == 1

InitRandom ==
    /\ \E s \in 1..MaxSeed : g = RandomMatrixStart(s, 1, 1)
    /\ rd = NoRead
    /\ heap = <<>>
    /\ NoDigest
    /\ NoCompress
    /\ NoShared

\* rand.Read(w) returns (8, nil).
ReadFull ==
    /\ g.status = "running"
    /\ g' = RandomMatrixCell(g, 8, FALSE)
    /\ rd' = [n |-> 8, err |-> FALSE, short |-> rd.short]
    /\ UNCHANGED <<digestVars, compressVars, sharedVars>>

\* rand.Read(w) returns (n, nil) with n < 8.
ReadShort(n) ==
    /\ g.status = "running"
    /\ rd.short < MaxShort
    /\ g' = RandomMatrixCell(g, n, FALSE)
    /\ rd' = [n |-> n, err |-> FALSE, short |-> rd.short + 1]
    /\ UNCHANGED <<digestVars, compressVars, sharedVars>>

\* rand.Read(w) returns (n, err) with err # nil.
ReadError(n) ==
    /\ g.status = "running"
    /\ g' = RandomMatrixCell(g, n, TRUE)
    /\ rd' = [n |-> n, err |-> TRUE, short |-> rd.short]
    /\ UNCHANGED <<digestVars, compressVars, sharedVars>>

NextRandom ==
    \/ ReadFull
    \/ \E n \in 0..7 : ReadShort(n)
    \/ \E n \in {0, 8} : ReadError(n)

(***************************************************************************)
(* Two digests on one compressor.                                          *)
(***************************************************************************)
\* Bounds: the bytes written to the two digests together, the length of one
\* Write, and the changes of digest that are counted.
SharedMaxLen == 9
SharedMaxChunk == 4
MaxSwitch == 2

\* The compressors the two digests share: a LookupTable and a Matrix, both
\* with N = 1 and a block size of 8.
SharedChoices ==
    { [kind |-> "LookupTable", A |-> RandomMatrix(1, 1, 2)],
      [kind |-> "Matrix",      A |-> MatrixOf(3, 1, 128)] }

\* The bytes the caller writes to digest k: the two digests get different
\* data.
ChunkFor(k, n) ==
    AsSeq([i \in 1..n |-> DataByte(Len(pair.written[k]) + i + 3 * (k - 1))])

\* c is the shared compressor; d1 := New(c); d2 := New(c)
InitShared ==
    \E ch \in SharedChoices :
    \E c \in {[kind |-> ch.kind, ref |-> 1]} :
    \E n1 \in {New([heap |-> CompressorHeap(ch), calls |-> <<>>, fail |-> NoFail], c)} :
    \E n2 \in {New(n1.m, c)} :
        /\ heap = n2.m.heap
        /\ fail = n2.m.fail
        /\ comp = c
        /\ last = [op |-> "New", arg |-> <<>>]
        /\ pair = [d |-> <<n1.addr, n2.addr>>, written |-> <<<<>>, <<>>>>,
                   on |-> 2, sw |-> 0]
        /\ d = 0
        /\ ret = NoRet
        /\ written = <<>>
        /\ calls = <<>>
        /\ fin = NoFin
        /\ summed = FALSE
        /\ grew = FALSE
        /\ straddle = FALSE
        /\ nreset = 0
        /\ total = 0
        /\ NoCompress
        /\ NoRandom

\* The call is made on digest k.
Turn(k) ==
    IF k # pair.on /\ pair.sw < MaxSwitch THEN pair.sw + 1 ELSE pair.sw

SharedIdle ==
    UNCHANGED <<comp, d, written, calls, fin, summed, grew, straddle,
                compressVars, randomVars>>

\* d_k.Write(p)
SharedWrite(k, p) ==
    /\ fail = NoFail
    /\ total + Len(p) <= SharedMaxLen
    /\ \E m \in {Write(Machine, pair.d[k], p)} :
           /\ heap' = m.heap
           /\ fail' = m.fail
    /\ last' = [op |-> "Write", arg |-> <<>>]
    /\ ret' = NoRet
    /\ pair' = [pair EXCEPT !.written[k] = @ \o p, !.on = k, !.sw = Turn(k)]
    /\ total' = total + Len(p)
    /\ UNCHANGED nreset
    /\ SharedIdle

\* d_k.Sum(in): what the call allocated is garbage once it has returned.
SharedSum(k, in) ==
    /\ fail = NoFail
    /\ \E r \in {Sum(Machine, pair.d[k], in)} :
           /\ heap' = SubSeq(r.m.heap, 1, Len(heap))
           /\ fail' = r.m.fail
           /\ ret' = r.out
    /\ last' = [op |-> "Sum", arg |-> in]
    /\ pair' = [pair EXCEPT !.on = k, !.sw = Turn(k)]
    /\ UNCHANGED <<total, nreset>>
    /\ SharedIdle

\* d_k.Reset()
SharedReset(k) ==
    /\ fail = NoFail
    /\ nreset < MaxResets
    /\ \E m \in {Reset(Machine, pair.d[k])} :
           /\ heap' = m.heap
           /\ fail' = m.fail
    /\ last' = [op |-> "Reset", arg |-> <<>>]
    /\ ret' = NoRet
    /\ pair' = [pair EXCEPT !.written[k] = <<>>, !.on = k, !.sw = Turn(k)]
    /\ nreset' = nreset + 1
    /\ UNCHANGED total
    /\ SharedIdle

NextShared ==
    \/ \E k \in 1..2 : \E n \in 0..SharedMaxChunk : SharedWrite(k, ChunkFor(k, n))
    \/ \E k \in 1..2 : SharedSum(k, <<>>)
    \/ \E k \in 1..2 : SharedReset(k)

vars == <<digestVars, compressVars, randomVars, sharedVars>>

Init == InitDigest

Next == NextDigest

Spec == Init /\ [][Next]_vars

SpecCompress == InitCompress /\ [][NextCompress]_vars

SpecRandom == InitRandom /\ [][NextRandom]_vars

SpecShared == InitShared /\ [][NextShared]_vars

(***************************************************************************)
(* Properties of the digest.                                               *)
(***************************************************************************)
\* The one-shot use of a fresh digest on the same compressor: New(comp),
\* one Write(msg), Sum(in).
OneShotWrite(n, msg) == [m |-> Write(n.m, n.addr, msg), addr |-> n.addr]
OneShotSum(w, in) == Sum(w.m, w.addr, in)
FreshDigest ==
    New([heap |-> <<heap[comp.ref]>>, calls |-> <<>>, fail |-> NoFail], comp)
OneShot(msg, in) == OneShotSum(OneShotWrite(FreshDigest, msg), in)

\* The call on d ended as the one-shot run r did: with the same slice
\* returned or, both, with a runtime failure.
SameResult(r) == ret = r.out /\ ((fail = NoFail) <=> (r.m.fail = NoFail))

\* The last n bytes of a Compress call's msg, and its block (what follows the
\* serialized chaining value).
LastBytes(msg, n) == SubSeq(msg, Len(msg) - n + 1, Len(msg))
BlockOf(msg) == SubSeq(msg, heap[d].size + 1, Len(msg))

\* The length of the message is a multiple of the block size.
WholeBlocks ==
    IF BlockSize = 0 THEN written = <<>> ELSE Len(written) % BlockSize = 0

\* C1: a fresh digest that received its message in chunks (empty ones and
\* ones that straddle a block boundary included), with no Write after a
\* Sum, gives on Sum(in) what a fresh digest gives that received the
\* concatenation in one single Write: the same returned slice or, both, a
\* runtime failure.
C1_Incremental ==
    (last.op = "Sum" /\ nreset = 0 /\ ~grew) =>
        \A r \in {OneShot(written, last.arg)} : SameResult(r)

\* A Sum that succeeded on a message of more than one block, all written
\* before it in chunks of which one straddled a block boundary.
C1_Witness ==
    /\ last.op = "Sum" /\ nreset = 0 /\ ~grew /\ fail = NoFail
    /\ straddle
    /\ Len(written) > BlockSize
    /\ Len(ret) = Len(last.arg) + heap[d].size

\* C2: Sum leaves the digest it is called on as it was: the struct (nx, len
\* and the rest), its chaining value h, its carry buffer x and the
\* compressor's data all keep their values, whatever the call did to its
\* copy.
C2_SumKeepsState ==
    [][last'.op = "Sum" => heap' = heap]_vars

\* A Sum that succeeded on a digest with carried bytes, and that compressed
\* (on its copy) at least one block.
C2_Witness ==
    /\ last.op = "Sum" /\ fail = NoFail
    /\ heap[d].nx > 0
    /\ Len(fin.calls) >= 1
    /\ Len(calls) >= 1

\* C3 as the specification states it: the 8 bytes that end the last
\* compressed block are the little-endian encoding of 8 times the number of
\* bytes written by the caller, the padding not counted.
C3_LengthField ==
    (last.op = "Sum" /\ fail = NoFail) =>
        LastBytes(fin.calls[Len(fin.calls)], 8) = PutUint64(U64(8 * Len(written)))

\* C5: after Reset the digest behaves as a fresh one, whatever bytes the
\* carry buffer still holds: its Writes make the Compress calls a fresh
\* digest makes on the same bytes, and its Sum returns what a fresh digest
\* returns.
C5_ResetIsFresh ==
    /\ (nreset >= 1 /\ last.op = "Write") =>
           \A w \in {OneShotWrite(FreshDigest, written)} :
               calls = w.m.calls /\ fail = w.m.fail
    /\ (nreset >= 1 /\ last.op = "Sum") =>
           \A r \in {OneShot(written, last.arg)} : SameResult(r)

\* A Sum after a Reset, on a message shorter than a block, while the carry
\* buffer holds, past the message, a nonzero byte from before the Reset.
C5_Witness ==
    /\ nreset >= 1 /\ last.op = "Sum" /\ fail = NoFail
    /\ written # <<>>
    /\ Len(written) < BlockSize
    /\ \E k \in (Len(written) + 1)..BlockSize : heap[heap[d].x][k] # 0

\* C6 as the specification states it: on a digest over a matrix of N = 4
\* rows and compressionFactor 1 (4 x 256), Sum of the empty message succeeds
\* with exactly one Compress call, whose block is 0x80, 23 zero bytes and
\* the 8-byte little-endian encoding of 0, and returns the words that call
\* left in dst, serialized little-endian.
C6_EmptyMessage ==
    (/\ comp.kind = "Matrix"
     /\ Len(heap[comp.ref]) = 4
     /\ Len(heap[comp.ref][1]) = 4 * 64
     /\ last.op = "Sum"
     /\ written = <<>>) =>
        /\ fail = NoFail
        /\ Len(fin.calls) = 1
        /\ BlockOf(fin.calls[1]) = <<128>> \o ZeroBytes(23) \o PutUint64(U64(0))
        /\ ret = last.arg
                 \o PutWords(Compress(heap, comp, ZeroWords(4), fin.calls[1]).dst)

\* Sum made exactly one Compress call, the Writes before it one per block of
\* the message, and the block of Sum's call is 0x80, zero bytes up to 8
\* bytes before its end, and 8 more bytes (the length field).
OnePaddingBlock ==
    /\ fail = NoFail
    /\ Len(calls) * BlockSize = Len(written)
    /\ Len(fin.calls) = 1
    /\ Len(BlockOf(fin.calls[1])) = BlockSize
    /\ SubSeq(BlockOf(fin.calls[1]), 1, BlockSize - 8) =
           <<128>> \o ZeroBytes(BlockSize - 9)

\* C7 as the specification states it, for every block size.
C7_AnyBlockSize ==
    (last.op = "Sum" /\ WholeBlocks) => OnePaddingBlock

\* C7, for block sizes above 8: when the length of the message is a
\* multiple of the block size B (zero included), Sum makes exactly one
\* Compress call beyond those of the message's own blocks, on a block that
\* holds padding only: 0x80, B - 9 zero bytes and the 8-byte length field.
C7_Boundary ==
    (last.op = "Sum" /\ WholeBlocks /\ BlockSize > 8) => OnePaddingBlock

\* A Sum on a message of one whole block or more, with a block size above 8.
C7_Witness ==
    /\ last.op = "Sum" /\ fail = NoFail
    /\ BlockSize > 8
    /\ written # <<>>
    /\ WholeBlocks
    /\ Len(fin.calls) = 1

\* Sum's padding write left B - 8 carried bytes, the length write made
\* exactly one Compress call, and Sum returned (nx was 0 at the assertion).
PaddingAligns ==
    /\ fail = NoFail
    /\ fin.padNx = BlockSize - 8
    /\ Len(fin.calls) = fin.padCalls + 1

\* C8: in every digest state that Write and Reset reach, the padding write
\* of Sum leaves exactly B - 8 carried bytes, so that the 8-byte length
\* write fills the carry buffer, makes exactly one last Compress call and
\* leaves nx = 0; the assertion d.nx != 0 in checkSum never fails.
C8_AnyBlockSize ==
    /\ fail # NxFail
    /\ (last.op = "Sum" => PaddingAligns)

\* The digest bytes of a slice returned by Sum(in).
DigestOf(out, in) == SubSeq(out, Len(in) + 1, Len(out))

\* Every Sum returned what a fresh digest returns for all the bytes written
\* since New or the last Reset (or failed as the fresh digest does).
C9_Returns ==
    (last.op = "Sum") =>
        \A r \in {OneShot(written, last.arg)} : SameResult(r)

\* A Sum that directly follows a Sum returns the same digest bytes.
C9_Repeat ==
    (last.op = "Sum" /\ last'.op = "Sum" /\ fail' = NoFail) =>
        DigestOf(ret', last'.arg) = DigestOf(ret, last.arg)

\* C9: Sum and Write interleave.  Every Sum, whatever Sums and Writes came
\* before it, returns the digest of all the bytes written since New or the
\* last Reset (what a fresh digest returns for them); two Sums with no
\* Write in between return the same digest bytes.
C9_Interleaved == []C9_Returns /\ [][C9_Repeat]_vars

\* Write; Sum; Write; Sum: a Sum that succeeded, after an earlier Sum and a
\* Write of one byte or more that followed it, on a message of a block or
\* more.
C9_Witness ==
    /\ last.op = "Sum" /\ fail = NoFail
    /\ grew
    /\ Len(calls) >= 1

(***************************************************************************)
(* Properties of the two compressors.                                      *)
(***************************************************************************)
\* C4: a Matrix and the LookupTable made from it report the same InputLen
\* and OutputLen, and on a msg of InputLen bytes and a dst of OutputLen
\* words their Compress calls leave the same words in dst.
C4_SameCompress ==
    /\ InputLen(heap, TableValue) = InputLen(heap, MatrixValue)
    /\ OutputLen(heap, TableValue) = OutputLen(heap, MatrixValue)
    /\ (/\ cout.matrix # NoOut
        /\ cout.table # NoOut
        /\ Len(cin.msg) = InputLen(heap, MatrixValue)
        /\ Len(cin.dst) = OutputLen(heap, MatrixValue)) =>
           /\ cout.matrix.fail = NoFail
           /\ cout.table = cout.matrix

\* Both calls were made on a two-row matrix, with a msg of two bytes that
\* have several bits set, and wrote to dst.
C4_Witness ==
    /\ cout.matrix # NoOut
    /\ cout.table # NoOut
    /\ Len(heap[1]) = 2
    /\ cin.msg = <<165, 255>>
    /\ Len(cin.dst) = 2
    /\ cout.table.fail = NoFail
    /\ cout.table.dst # cin.dst

(***************************************************************************)
(* Properties of RandomMatrix.                                             *)
(***************************************************************************)
\* C10 as the specification states it: when the reader reports an error
\* RandomMatrix ends in a runtime failure, and so it does when the reader
\* delivers fewer than the 8 bytes of an entry: a matrix is returned only
\* when each of its N * M entries was read in full from the reader.
C10_FatalEntropy ==
    /\ rd.err => g.status = "panicked"
    /\ g.status = "returned" => (rd.short = 0 /\ g.pos = 8 * g.N * g.M)

\* C11: a Compress call, on the Matrix or on the LookupTable, with a dst
\* shorter than N words or a msg shorter than InputLen bytes ends in an
\* index-out-of-range failure and has written no element of dst.
C11_Rejects ==
    \A r \in {cout.matrix, cout.table} :
        (/\ r # NoOut
         /\ \/ Len(cin.dst) < OutputLen(heap, MatrixValue)
            \/ Len(cin.msg) < InputLen(heap, MatrixValue)) =>
            /\ r.fail = IndexFail
            /\ r.dst = cin.dst

\* Both calls were made with a msg that is one byte short (and not empty) on
\* a dst of the right length, and the dst holds words that a call would
\* have overwritten.
C11_Witness ==
    /\ cout.matrix # NoOut
    /\ cout.table # NoOut
    /\ Len(cin.msg) = InputLen(heap, MatrixValue) - 1
    /\ Len(cin.msg) >= 1
    /\ Len(cin.dst) = OutputLen(heap, MatrixValue)
    /\ cin.dst[1] # Zero64

\* The cells A[i][8j+b] of row i that a msg selects, in order: bit b of byte
\* j is set, b = 0 being the most significant bit of the byte.
Selected(row, msg) ==
    LET cells == {c \in 0..(8 * Len(msg) - 1) :
                     (msg[(c \div 8) + 1] \div 2^(7 - (c % 8))) % 2 = 1}
    IN  [c \in cells |-> row[c + 1]]

\* The sum over a set of cells of limb k of each cell (an integer below 2^31
\* for the cells of a msg of MaxMsg bytes).
RECURSIVE LimbSum(_, _, _)
LimbSum(sel, todo, k) ==
    IF todo = {} THEN 0
    ELSE LET c == CHOOSE x \in todo : TRUE
         IN  sel[c][k] + LimbSum(sel, todo \ {c}, k)

\* The sum of the selected cells as a natural number in base 2^16: five
\* digits, of which the fifth is what exceeds 2^64.
ColumnSum(sel) ==
    LET t1 == LimbSum(sel, DOMAIN sel, 1)
        t2 == LimbSum(sel, DOMAIN sel, 2) + t1 \div LimbBase
        t3 == LimbSum(sel, DOMAIN sel, 3) + t2 \div LimbBase
        t4 == LimbSum(sel, DOMAIN sel, 4) + t3 \div LimbBase
    IN  <<t1 % LimbBase, t2 % LimbBase, t3 % LimbBase, t4 % LimbBase,
          t4 \div LimbBase>>

\* C12: on a msg of InputLen = M/8 bytes, Matrix.Compress sets dst[i] to the
\* sum modulo 2^64 (wrapping) of the cells A[i][8j+b] for which bit b of msg
\* byte j is set, bit 0 being the most significant.
C12_Reference ==
    (/\ cout.matrix # NoOut
     /\ Len(cin.msg) = InputLen(heap, MatrixValue)
     /\ Len(cin.dst) >= OutputLen(heap, MatrixValue)) =>
        /\ cout.matrix.fail = NoFail
        /\ \A i \in 1..Len(heap[1]) :
               cout.matrix.dst[i] = SubSeq(ColumnSum(Selected(heap[1][i], cin.msg)), 1, 4)

\* The call was made on a two-row matrix with a msg that selects cells in
\* both of its bytes (and not whole bytes), and the sum of the first row
\* exceeded 2^64: the word in dst is the sum wrapped.
C12_Witness ==
    /\ cout.matrix # NoOut
    /\ Len(heap[1]) = 2
    /\ cin.msg = <<165, 90>>
    /\ Len(cin.dst) = 2
    /\ cout.matrix.fail = NoFail
    /\ ColumnSum(Selected(heap[1][1], cin.msg))[5] >= 1

\* The objects of digest k: its struct, its carry buffer and its chaining
\* value.
ObjectsOf(hp, k) ==
    <<hp[pair.d[k]], hp[hp[pair.d[k]].x], hp[hp[pair.d[k]].h]>>

\* A Sum on one of the two digests returns what a fresh digest on the same
\* compressor returns that is used alone on the bytes written to that one.
C13_Alone ==
    (pair.on \in 1..2 /\ last.op = "Sum") =>
        \A r \in {OneShot(pair.written[pair.on], last.arg)} : SameResult(r)

\* A call on one of the two digests leaves the other digest's objects and
\* the compressor's data as they were.
C13_Frame ==
    pair'.on \in 1..2 =>
        /\ ObjectsOf(heap', 3 - pair'.on) = ObjectsOf(heap, 3 - pair'.on)
        /\ heap'[comp.ref] = heap[comp.ref]

\* C13: two digests made by New on one shared Matrix or LookupTable, each
\* used by its caller alone, with the calls on the two interleaved, do not
\* affect each other: every Sum gives what the digest would give if it
\* were the only one, no call changes the other digest's state, and the
\* compressor's data is never written.
C13_Isolation == []C13_Alone /\ [][C13_Frame]_vars

\* A Sum that succeeded on one digest after the calls changed from one
\* digest to the other twice or more, when the other digest has taken a
\* whole block or more into its chaining value and the two have received
\* different bytes.
C13_Witness ==
    /\ pair.on \in 1..2 /\ last.op = "Sum" /\ fail = NoFail
    /\ pair.sw >= 2
    /\ Len(pair.written[pair.on]) >= 1
    /\ Len(pair.written[3 - pair.on]) >= heap[pair.d[3 - pair.on]].blockSize
    /\ heap[heap[pair.d[3 - pair.on]].h] # heap[heap[pair.d[pair.on]].h]
    /\ Len(ret) = heap[pair.d[pair.on]].size

\* C14: a Sum that returns, after a message of any length (the empty one
\* included), returns its argument unchanged followed by exactly
\* S = 8 * OutputLen bytes, S being what Size() returns; the i-th group of
\* 8 of these bytes is the little-endian encoding of the i-th word of the
\* final chaining value, in row order.
C14_Layout ==
    (last.op = "Sum" /\ fail = NoFail) =>
        LET in == last.arg
            S == 8 * OutputLen(heap, comp)
        IN  /\ Size(Machine, d) = S
            /\ Len(ret) = Len(in) + S
            /\ SubSeq(ret, 1, Len(in)) = in
            /\ Len(fin.h) = OutputLen(heap, comp)
            /\ \A i \in 1..OutputLen(heap, comp) :
                   SubSeq(ret, Len(in) + 8 * (i - 1) + 1, Len(in) + 8 * i) =
                       <<fin.h[i][1] % 256, fin.h[i][1] \div 256,
                         fin.h[i][2] % 256, fin.h[i][2] \div 256,
                         fin.h[i][3] % 256, fin.h[i][3] \div 256,
                         fin.h[i][4] % 256, fin.h[i][4] \div 256>>

\* A Sum that returned on the empty message, with a non-empty argument and
\* a chaining value of two different words.
C14_Witness ==
    /\ last.op = "Sum" /\ fail = NoFail
    /\ written = <<>>
    /\ last.arg = <<7, 9>>
    /\ Len(fin.h) = 2
    /\ fin.h[1] # fin.h[2]
    /\ Len(ret) = 18

\* Block k (from 1) of the bytes written, for block size B.
MessageBlock(k) == SubSeq(written, (k - 1) * BlockSize + 1, k * BlockSize)

\* From call k on, with H the chaining value before it: every Compress call
\* was made on H serialized followed by block k, and h is what the last of
\* them left.
RECURSIVE ChainedFrom(_, _)
ChainedFrom(k, H) ==
    IF k > Len(calls) THEN heap[heap[d].h] = H
    ELSE /\ calls[k] = Flatten(AsSeq([j \in 1..Len(H) |-> PutUint64(H[j])]))
                           \o MessageBlock(k)
         /\ \A r \in {Compress(heap, comp, H, calls[k])} :
                r.fail = NoFail /\ ChainedFrom(k + 1, r.dst)

\* C15: after any Writes of L bytes in all on a fresh or reset digest with
\* block size B >= 1, Compress has been called floor(L / B) times, once
\* per whole block of the message in order, on the chaining value
\* serialized little-endian followed by the block, and h is the fold of
\* these calls from the all-zero chaining value.
C15_Chaining ==
    (d # 0 /\ fail = NoFail /\ BlockSize >= 1) =>
        /\ Len(calls) = Len(written) \div BlockSize
        /\ ChainedFrom(1, ZeroWords(OutputLen(heap, comp)))

\* Two blocks or more have been compressed, after a Write that straddled a
\* block boundary, and the chaining value is not the initial one.
C15_Witness ==
    /\ d # 0 /\ fail = NoFail /\ BlockSize >= 1
    /\ last.op = "Write"
    /\ Len(calls) >= 2
    /\ straddle
    /\ heap[heap[d].h] # ZeroWords(OutputLen(heap, comp))

\* C16: after New and after every Write, Sum and Reset on a digest with
\* block size B >= 1, 0 <= nx < B, nx is the number of bytes written since
\* New or the last Reset modulo B, and x[0..nx) holds the last nx bytes
\* written: no Write leaves a whole block uncompressed in the carry buffer.
C16_CarryBuffer ==
    (d # 0 /\ BlockSize >= 1) =>
        LET nx == heap[d].nx
        IN  /\ 0 <= nx /\ nx < BlockSize
            /\ nx = Len(written) % BlockSize
            /\ Len(heap[heap[d].x]) = BlockSize
            /\ SubSeq(heap[heap[d].x], 1, nx) =
                   SubSeq(written, Len(written) - nx + 1, Len(written))

\* A Write left a tail in the carry buffer after a block or more had been
\* compressed and a Write had straddled a block boundary.
C16_Witness ==
    /\ d # 0 /\ fail = NoFail /\ BlockSize >= 1
    /\ last.op = "Write"
    /\ heap[d].nx >= 2
    /\ Len(calls) >= 1
    /\ straddle

\* The block size of a digest on the caller's compressor:
\* InputLen - 8 * OutputLen.
BlockSizeOf == InputLen(heap, comp) - 8 * OutputLen(heap, comp)

\* Write and Sum complete without a runtime failure for every message when
\* the block size is 8 or more; with a block size of 0..7 every Sum call ends
\* in a runtime failure and returns nothing.
SumNeedsEight ==
    /\ BlockSizeOf >= 8 => fail = NoFail
    /\ (BlockSizeOf >= 0 /\ BlockSizeOf < 8 /\ last.op = "Sum") =>
           fail # NoFail /\ ret = NoRet

\* The statement of C17 as written: New accepts any compressor (it returns a
\* digest without a runtime failure), and the block size decides as above.
C17_AnyCompressor ==
    d # 0 =>
        /\ last.op = "New" => fail = NoFail
        /\ SumNeedsEight

\* C17: New validates nothing: it returns a digest for every compressor
\* whose block size B = InputLen - 8 * OutputLen is 0 or more, and ends in a
\* runtime failure itself when B is negative.  Write and Sum complete
\* without a runtime failure for every message exactly when B >= 8; with
\* 0 <= B < 8 every Sum call ends in a runtime failure.
C17_UsableBlockSizes ==
    d # 0 =>
        /\ last.op = "New" => ((fail = NoFail) <=> (BlockSizeOf >= 0))
        /\ (BlockSizeOf < 0) => (last.op = "New" /\ fail = MakeFail)
        /\ SumNeedsEight

\* A Sum ended in a runtime failure on a digest with a block size of 1..7,
\* after Writes that completed.
C17_Witness ==
    /\ d # 0 /\ last.op = "Sum" /\ fail # NoFail
    /\ BlockSizeOf >= 1 /\ BlockSizeOf < 8
    /\ Len(written) >= BlockSizeOf
    /\ Len(calls) >= 1

====
